---- MODULE Spec2Model ----
(***************************************************************************)
(* Model of tools/flatten_yaml.py: the include flattener.                  *)
(*                                                                         *)
(* Text is a sequence of one-character strings; "\n" is the newline and    *)
(* "NBSP" stands for the non-breaking space U+00A0.  A file is its text;   *)
(* lines are obtained with Split and texts with Join, as the code does     *)
(* with str.split('\n') and '\n'.join.                                     *)
(***************************************************************************)
EXTENDS Integers, Sequences, FiniteSets, TLC

\* ------------------------------------------------------------------ bounds
\* longest root document, in lines
MaxLines == 3
\* longest raw include target of SpecSan, in chunks
MaxChunks == 4

\* ------------------------------------------------------- string primitives
\* str.isspace() on the characters of the model's alphabet (after
\* normalize_spaces no NBSP is left in a text)
IsSpace(c) == c \in {" ", "\t", "\n", "NBSP"}

\* s[k:]
Drop(s, k) == SubSeq(s, k + 1, Len(s))

\* s[:k]
Take(s, k) == SubSeq(s, 1, k)

\* str.startswith
StartsWith(s, p) == Len(s) >= Len(p) /\ SubSeq(s, 1, Len(p)) = p

\* str.find(c): 0-based position of the first c, -1 when there is none
Find(s, c) ==
    IF \E k \in 1..Len(s) : s[k] = c
    THEN (CHOOSE k \in 1..Len(s) : s[k] = c /\ \A m \in 1..(k - 1) : s[m] # c) - 1
    ELSE -1

\* number of leading whitespace characters (what a greedy \s* takes)
LeadWs(s) ==
    IF \A k \in 1..Len(s) : IsSpace(s[k]) THEN Len(s)
    ELSE (CHOOSE k \in 1..Len(s) : ~IsSpace(s[k]) /\ \A m \in 1..(k - 1) : IsSpace(s[m])) - 1

\* str.lstrip()
LStrip(s) == Drop(s, LeadWs(s))

\* str.rstrip()
RStrip(s) ==
    IF \A k \in 1..Len(s) : IsSpace(s[k]) THEN <<>>
    ELSE Take(s, CHOOSE k \in 1..Len(s) :
                     ~IsSpace(s[k]) /\ \A m \in (k + 1)..Len(s) : IsSpace(s[m]))

\* str.strip()
Strip(s) == RStrip(LStrip(s))

\* str.lower() on the letters of the model's alphabet
LowerChar(c) ==
    CASE c = "F" -> "f" [] c = "I" -> "i" [] c = "L" -> "l" [] c = "E" -> "e"
      [] OTHER -> c

Lower(s) == [k \in 1..Len(s) |-> LowerChar(s[k])]

\* str.split('\n'): always at least one line
RECURSIVE Split(_)
Split(s) ==
    LET p == Find(s, "\n")
    IN  IF p = -1 THEN <<s>> ELSE <<Take(s, p)>> \o Split(Drop(s, p + 1))

\* '\n'.join(list): the empty list joins to the empty text
RECURSIVE Join(_)
Join(ls) ==
    IF ls = <<>> THEN <<>>
    ELSE IF Len(ls) = 1 THEN ls[1]
    ELSE ls[1] \o <<"\n">> \o Join(Tail(ls))

\* ' ' * k
Spaces(k) == [x \in 1..k |-> " "]

\* --------------------------------------------------------------- the code
\* normalize_spaces: NBSP, FIGSP and NNBSP become ' ' (the alphabet has NBSP)
normalize_spaces(text) == [k \in 1..Len(text) |-> IF text[k] = "NBSP" THEN " " ELSE text[k]]

KW_INCLUDE == <<"!", "i", "n", "c", "l", "u", "d", "e">>
FILE_PREFIX == <<"f", "i", "l", "e", ":">>
ARGS_PREFIX == <<"a", "r", "g", "s", ":">>
ARGS_HEADER == <<" ", " ", "#", " ", "-", "-", "-", "-", " ", "a", "r", "g", "s", " ", "(", "p", "r", "e", "s", "e", "r", "v", "e", "d", " ", "f", "o", "r", " ", "r", "e", "f", "e", "r", "e", "n", "c", "e", ")", " ", "-", "-", "-", "-">>
COMMENT_PREFIX == <<" ", " ", "#", " ">>
YML == <<".", "y", "m", "l">>
YAML == <<".", "y", "a", "m", "l">>

NoMatch == [ok |-> FALSE, indent |-> <<>>, target |-> <<>>]
Match(ind, tgt) == [ok |-> TRUE, indent |-> ind, target |-> tgt]

\* INCLUDE_RE.match(line) for ^(\s*)-\s*!include\s+(?:file:\s*)?(.+?)\s*$
\* group 1 is the whole leading whitespace run ('-' is no whitespace); the
\* lazy group 2 is followed by \s*$ and so ends at the last non-whitespace
\* character; when nothing but whitespace follows, \s+ (or the \s* of the
\* file: group) gives back its last character to group 2.
INCLUDE_RE(line) ==
    LET ind == Take(line, LeadWs(line))
        a == LStrip(line)
    IN  IF a = <<>> \/ Head(a) # "-" THEN NoMatch
        ELSE LET b == LStrip(Tail(a))
             IN  IF ~StartsWith(b, KW_INCLUDE) THEN NoMatch
                 ELSE LET c == Drop(b, Len(KW_INCLUDE))
                          k == LeadWs(c)
                          t == Drop(c, k)
                      IN  IF t = <<>>
                          THEN IF k >= 2 THEN Match(ind, <<c[k]>>) ELSE NoMatch
                          ELSE IF k = 0 THEN NoMatch
                          ELSE IF StartsWith(t, FILE_PREFIX)
                          THEN LET u == Drop(t, Len(FILE_PREFIX))
                                   m == LeadWs(u)
                                   v == Drop(u, m)
                               IN  IF v # <<>> THEN Match(ind, RStrip(v))
                                   ELSE IF m >= 1 THEN Match(ind, <<u[m]>>)
                                   ELSE Match(ind, t)
                          ELSE Match(ind, RStrip(t))

\* s[p..e] is a match of [^\s]+\.ya?ml
YamlAt(s, p, e) ==
    /\ \A k \in p..e : ~IsSpace(s[k])
    /\ \/ e - p + 1 > Len(YML) /\ SubSeq(s, e - Len(YML) + 1, e) = YML
       \/ e - p + 1 > Len(YAML) /\ SubSeq(s, e - Len(YAML) + 1, e) = YAML

\* re.search(r'([^\s]+\.ya?ml)', s): leftmost start, then the greedy run
\* backs off to the last place where the extension follows
SearchYaml(s) ==
    LET starts == {p \in 1..Len(s) : \E e \in p..Len(s) : YamlAt(s, p, e)}
    IN  IF starts = {} THEN [ok |-> FALSE, text |-> <<>>]
        ELSE LET p == CHOOSE x \in starts : \A y \in starts : x <= y
                 e == CHOOSE x \in p..Len(s) :
                          YamlAt(s, p, x) /\ \A y \in (x + 1)..Len(s) : ~YamlAt(s, p, y)
             IN  [ok |-> TRUE, text |-> SubSeq(s, p, e)]

\* flatten's sanitizing of the raw target: include_rel_path from m.group(2)
include_rel_path(raw) ==
    LET hash_pos == Find(raw, "#")
        raw_target == Strip(IF hash_pos # -1 THEN Take(raw, hash_pos) ELSE raw)
        qpos == Find(raw_target, "?")
        path0 == IF qpos # -1 THEN Strip(Take(raw_target, qpos)) ELSE raw_target
        path_part == IF StartsWith(Lower(path0), FILE_PREFIX)
                     THEN Strip(Drop(path0, 5)) ELSE path0
        m_path == SearchYaml(path_part)
    IN  IF m_path.ok THEN m_path.text ELSE path_part

\* str.rstrip('),')
RECURSIVE RStripPunct(_)
RStripPunct(s) ==
    IF s # <<>> /\ s[Len(s)] \in {")", ","} THEN RStripPunct(Take(s, Len(s) - 1)) ELSE s

\* resolve_include_path: the path relative to base_dir that is joined to it;
\* <<>> is base_dir itself.
resolve_include_path(include_expr) ==
    LET s0 == Strip(include_expr)
        s1 == IF StartsWith(Lower(s0), FILE_PREFIX) THEN Strip(Drop(s0, 5)) ELSE s0
        qpos == Find(s1, "?")
        s2 == IF qpos # -1 THEN Strip(Take(s1, qpos)) ELSE s1
    IN  RStripPunct(s2)

\* indent_block(text, spaces)
indent_block(text, spaces) ==
    LET ls == Split(text)
    IN  Join([k \in 1..Len(ls) |-> IF ls[k] # <<>> THEN Spaces(spaces) \o ls[k] ELSE <<>>])

\* next_indent_re.match(l) for ^<indent>\s+
next_indent_re(indent, l) ==
    /\ StartsWith(l, indent)
    /\ Len(l) > Len(indent)
    /\ IsSpace(l[Len(indent) + 1])

\* the args collection: args_lines and j for the directive at 0-based index i
RECURSIVE CollectWhile(_, _, _)
CollectWhile(ls, indent, j) ==
    IF j < Len(ls) /\ next_indent_re(indent, ls[j + 1])
    THEN CollectWhile(ls, indent, j + 1) ELSE j

\* variant: the cursor lands one line past the block
mutant_collect_skip_one(ls, indent, i) ==
    LET j == i + 1
    IN  IF /\ j < Len(ls)
           /\ next_indent_re(indent, ls[j + 1])
           /\ StartsWith(LStrip(ls[j + 1]), ARGS_PREFIX)
        THEN LET e == CollectWhile(ls, indent, j + 1)
             IN  [args |-> SubSeq(ls, j + 1, e), j |-> IF e < Len(ls) THEN e + 1 ELSE e]
        ELSE [args |-> <<>>, j |-> j]

\* variant: the second line of the block is tested for the indent only
mutant_collect_no_indent_test(ls, indent, i) ==
    LET j == i + 1
    IN  IF /\ j < Len(ls)
           /\ next_indent_re(indent, ls[j + 1])
           /\ StartsWith(LStrip(ls[j + 1]), ARGS_PREFIX)
        THEN LET e == IF j + 1 < Len(ls) /\ StartsWith(ls[j + 2], indent)
                      THEN j + 2 ELSE j + 1
             IN  [args |-> SubSeq(ls, j + 1, e), j |-> e]
        ELSE [args |-> <<>>, j |-> j]

\* variant: a whitespace-only line ends the block
mutant_collect_stop_at_blank(ls, indent, i) ==
    LET j == i + 1
    IN  IF /\ j < Len(ls)
           /\ next_indent_re(indent, ls[j + 1])
           /\ StartsWith(LStrip(ls[j + 1]), ARGS_PREFIX)
        THEN LET stops == {e \in (j + 1)..Len(ls) :
                              e = Len(ls) \/ ~next_indent_re(indent, ls[e + 1])
                                          \/ Strip(ls[e + 1]) = <<>>}
                 e == CHOOSE x \in stops : \A y \in stops : x <= y
             IN  [args |-> SubSeq(ls, j + 1, e), j |-> e]
        ELSE [args |-> <<>>, j |-> j]

\* variant: without an args block the cursor stays on the directive
mutant_collect_no_advance(ls, indent, i) ==
    LET j == i + 1
    IN  IF /\ j < Len(ls)
           /\ next_indent_re(indent, ls[j + 1])
           /\ StartsWith(LStrip(ls[j + 1]), ARGS_PREFIX)
        THEN LET e == CollectWhile(ls, indent, j + 1)
             IN  [args |-> SubSeq(ls, j + 1, e), j |-> e]
        ELSE [args |-> <<>>, j |-> i]

\* lines 102-111: args_lines and j
collect_args(ls, indent, i) ==
    LET j == i + 1
    IN  IF /\ j < Len(ls)
           /\ next_indent_re(indent, ls[j + 1])
           /\ StartsWith(LStrip(ls[j + 1]), ARGS_PREFIX)
        THEN LET e == CollectWhile(ls, indent, j + 1)
             IN  [args |-> SubSeq(ls, j + 1, e), j |-> e]
        ELSE [args |-> <<>>, j |-> j]

\* \w, '-' and '"' on the model's alphabet
IsKeyChar(c) ==
    c \in {"a", "b", "c", "d", "e", "f", "g", "h", "i", "j", "k", "l", "m", "n", "o",
           "p", "q", "r", "s", "t", "u", "v", "w", "x", "y", "z", "F", "I", "L", "E",
           "0", "1", "2", "3", "4", "5", "6", "7", "8", "9", "_", "-", "\""}

\* re.match(r'^\s*[\w\-\"]+\s*:', first_line)
keyed(first_line) ==
    LET a == LStrip(first_line)
        toks == {k \in 1..Len(a) : \A m \in 1..k : IsKeyChar(a[m])}
    IN  /\ toks # {}
        /\ LET k == CHOOSE x \in toks : \A y \in toks : y <= x
               b == LStrip(Drop(a, k))
           IN  b # <<>> /\ Head(b) = ":"

\* first_idx: the 0-based index of the first non-blank line, len(inc_lines)
\* when every line is blank
first_idx(inc_lines) ==
    IF \A k \in 1..Len(inc_lines) : Strip(inc_lines[k]) = <<>> THEN Len(inc_lines)
    ELSE (CHOOSE k \in 1..Len(inc_lines) :
              /\ Strip(inc_lines[k]) # <<>>
              /\ \A m \in 1..(k - 1) : Strip(inc_lines[m]) = <<>>) - 1

\* what flatten appends to out for a fragment that was read
\* variant: the first line is not trimmed
mutant_inline_keep_first_indent(indent, inc_content) ==
    LET inc_lines == Split(inc_content)
        fi == first_idx(inc_lines)
        dash == indent \o <<"-", " ">>
        first_line == IF fi < Len(inc_lines) THEN inc_lines[fi + 1] ELSE <<>>
        rest == Join(Drop(inc_lines, fi + 1))
    IN  IF keyed(first_line)
        THEN <<dash \o first_line>> \o
             (IF Strip(rest) # <<>> THEN <<indent_block(rest, Len(indent) + 2)>> ELSE <<>>)
        ELSE <<dash \o <<"|">>, indent_block(inc_content, Len(indent) + 2)>>

\* variant: the literal block starts at the first content line
mutant_inline_literal_rest_only(indent, inc_content) ==
    LET inc_lines == Split(inc_content)
        fi == first_idx(inc_lines)
        dash == indent \o <<"-", " ">>
        first_line == IF fi < Len(inc_lines) THEN inc_lines[fi + 1] ELSE <<>>
        rest == Join(Drop(inc_lines, fi + 1))
    IN  IF keyed(first_line)
        THEN <<dash \o Strip(first_line)>> \o
             (IF Strip(rest) # <<>> THEN <<indent_block(rest, Len(indent) + 2)>> ELSE <<>>)
        ELSE <<dash \o <<"|">>, indent_block(Join(Drop(inc_lines, fi)), Len(indent) + 2)>>

\* lines 125-145
inline_fragment(indent, inc_content) ==
    LET inc_lines == Split(inc_content)
        fi == first_idx(inc_lines)
        dash == indent \o <<"-", " ">>
        first_line == IF fi < Len(inc_lines) THEN inc_lines[fi + 1] ELSE <<>>
        rest == Join(Drop(inc_lines, fi + 1))
    IN  IF keyed(first_line)
        THEN <<dash \o Strip(first_line)>> \o
             (IF Strip(rest) # <<>> THEN <<indent_block(rest, Len(indent) + 2)>> ELSE <<>>)
        ELSE <<dash \o <<"|">>, indent_block(inc_content, Len(indent) + 2)>>

\* the args preserved as comments
\* variant: the args lines are not trimmed
mutant_args_comments_unstripped(indent, args_lines) ==
    IF args_lines = <<>> THEN <<>>
    ELSE <<indent \o ARGS_HEADER>> \o
         [k \in 1..Len(args_lines) |-> indent \o COMMENT_PREFIX \o args_lines[k]]

\* lines 147-151
args_comments(indent, args_lines) ==
    IF args_lines = <<>> THEN <<>>
    ELSE <<indent \o ARGS_HEADER>> \o
         [k \in 1..Len(args_lines) |-> indent \o COMMENT_PREFIX \o Strip(args_lines[k])]

\* what flatten appends when the include is missing
\* variant: the args lines are lost
mutant_fallback_drop_args(line, args_lines) == <<line>>

\* lines 119-121
fallback_lines(line, args_lines) == <<line>> \o args_lines

\* what flatten appends for a line that is no directive
\* variant: trailing whitespace is cut
mutant_pass_through_stripped(line) == <<RStrip(line)>>

\* line 69
pass_through(line) == <<line>>

\* ------------------------------------------------------------------ inputs
P_inc_a == <<"-", " ", "!", "i", "n", "c", "l", "u", "d", "e", " ", "a", ".", "y", "a", "m", "l">>
P_inc_b == <<" ", " ", "-", " ", "!", "i", "n", "c", "l", "u", "d", "e", " ", "f", "i", "l", "e", ":", " ", "b", ".", "y", "a", "m", "l">>
P_args == <<" ", " ", "a", "r", "g", "s", ":">>
P_x == <<" ", " ", " ", " ", "x", ":", " ", "1">>
P_item == <<"-", "NBSP", "b">>
P_ws == <<" ", " ">>
P_empty == <<>>

\* the lines a root document is made of
LinePool == {P_inc_a, P_inc_b, P_args, P_x, P_item, P_ws, P_empty}

PATH_A == <<"a", ".", "y", "a", "m", "l">>
PATH_B == <<"b", ".", "y", "a", "m", "l">>
Paths == {PATH_A, PATH_B}

F_keyed == <<"n", "a", "m", "e", ":", " ", "x", "\n", "v", "a", "l", "u", "e", ":", " ", "1">>
F_list == <<"-", " ", "a", "\n", "-", " ", "b">>
F_lead == <<"\n", " ", "k", ":", " ", "v", "\n">>
F_blank == <<" ", "\n">>
F_gap == <<"k", ":", "NBSP", "v", "\n", "\n", " ", " ", "w", ":", " ", "1", "\n">>

\* the fragment files: the texts a.yaml can hold
FragPool == {F_keyed, F_list, F_lead, F_blank, F_gap}

NoFile == [exists |-> FALSE, text |-> <<>>]
File(t) == [exists |-> TRUE, text |-> t]

\* root documents of 1..MaxLines lines
Docs == UNION {[1..k -> LinePool] : k \in 1..MaxLines}

\* the working directory: a.yaml is missing or holds any fragment, b.yaml is
\* missing or holds the keyed fragment
FileSystems ==
    {f \in [Paths -> {NoFile} \cup {File(t) : t \in FragPool}] :
        f[PATH_B] \in {NoFile, File(F_keyed)}}

C_file == <<"f", "i", "l", "e", ":">>
C_FILE == <<"F", "I", "L", "E", ":">>
C_path == <<"a", ".", "y", "a", "m", "l">>
SAN_HEAD == <<"-", " ", "!", "i", "n", "c", "l", "u", "d", "e", " ">>

\* the pieces a raw include target of SpecSan is made of
Chunks == {C_file, C_FILE, C_path, <<" ">>, <<"#">>, <<"?">>, <<")">>, <<"x">>}

RECURSIVE Concat(_)
Concat(ss) == IF ss = <<>> THEN <<>> ELSE Head(ss) \o Concat(Tail(ss))

\* one-line documents: a directive head followed by 0..MaxChunks chunks
SanDocs == {SAN_HEAD \o Concat(cs) : cs \in UNION {[1..k -> Chunks] : k \in 0..MaxChunks}}

\* ------------------------------------------------------------------- state
VARIABLES
    pc,       \* where the run of the script is
    input,    \* the file at INPUT
    fs,       \* the files under base_dir, by relative path
    lines,    \* flatten: lines
    i,        \* flatten: i
    out,      \* flatten: out
    flat,     \* __main__: flat, the text flatten returned
    outFile,  \* the file at OUTPUT as written by this run
    stdout,   \* what the run printed
    hist      \* one record for each iteration of flatten's loop

vars == <<pc, input, fs, lines, i, out, flat, outFile, stdout, hist>>

n == Len(lines)

\* os.path.exists(inc_path): base_dir itself (the empty relative path) exists
path_exists(path) == path = <<>> \/ (path \in DOMAIN fs /\ fs[path].exists)

\* read_file(inc_path) returns: a directory cannot be read
path_readable(path) == path \in DOMAIN fs /\ fs[path].exists

Start ==
    /\ pc = "main"
    /\ lines = <<>>
    /\ i = 0
    /\ out = <<>>
    /\ flat = <<>>
    /\ outFile = NoFile
    /\ stdout = <<>>
    /\ hist = <<>>

Init ==
    /\ Start
    /\ \/ input = NoFile
       \/ \E d \in Docs : input = File(Join(d))
    /\ fs \in FileSystems

InitSan ==
    /\ Start
    /\ \/ input = NoFile
       \/ \E t \in SanDocs : input = File(t)
    /\ fs = [p \in Paths |-> IF p = PATH_A THEN File(F_keyed) ELSE NoFile]

\* __main__: the input does not exist
MainMissing ==
    /\ pc = "main"
    /\ ~input.exists
    /\ stdout' = Append(stdout, "input_not_found")
    /\ pc' = "exit1"
    /\ UNCHANGED <<input, fs, lines, i, out, flat, outFile, hist>>

\* __main__ calls flatten, which reads and splits the document
FlattenEnter ==
    /\ pc = "main"
    /\ input.exists
    /\ lines' = Split(normalize_spaces(input.text))
    /\ i' = 0
    /\ out' = <<>>
    /\ pc' = "loop"
    /\ UNCHANGED <<input, fs, flat, outFile, stdout, hist>>

\* read_file(input_file) raises although the existence check passed
FlattenEnterRaise ==
    /\ pc = "main"
    /\ input.exists
    /\ pc' = "raised"
    /\ UNCHANGED <<input, fs, lines, i, out, flat, outFile, stdout, hist>>

Entry(kind, m, ref, path, col, lo, mid, hi) ==
    [at |-> i, next |-> col.j, kind |-> kind, indent |-> m.indent, raw |-> m.target,
     ref |-> ref, path |-> path, args |-> col.args, lo |-> lo, mid |-> mid, hi |-> hi]

\* a line that is no directive
PassThrough ==
    /\ pc = "loop"
    /\ i < n
    /\ LET line == lines[i + 1]
           m == INCLUDE_RE(line)
       IN  /\ ~m.ok
           /\ out' = out \o pass_through(line)
           /\ i' = i + 1
           /\ hist' = Append(hist, Entry("copy", m, <<>>, <<>>, [args |-> <<>>, j |-> i + 1],
                                         Len(out) + 1, Len(out'), Len(out')))
    /\ UNCHANGED <<pc, input, fs, lines, flat, outFile, stdout>>

\* a directive whose include does not exist
Fallback ==
    /\ pc = "loop"
    /\ i < n
    /\ LET line == lines[i + 1]
           m == INCLUDE_RE(line)
           ref == include_rel_path(m.target)
           col == collect_args(lines, m.indent, i)
           inc_path == resolve_include_path(ref)
       IN  /\ m.ok
           /\ ~path_exists(inc_path)
           /\ out' = out \o fallback_lines(line, col.args)
           /\ i' = col.j
           /\ hist' = Append(hist, Entry("fallback", m, ref, inc_path, col,
                                         Len(out) + 1, Len(out'), Len(out')))
    /\ UNCHANGED <<pc, input, fs, lines, flat, outFile, stdout>>

\* a directive whose include exists and is read
Inline ==
    /\ pc = "loop"
    /\ i < n
    /\ LET line == lines[i + 1]
           m == INCLUDE_RE(line)
           ref == include_rel_path(m.target)
           col == collect_args(lines, m.indent, i)
           inc_path == resolve_include_path(ref)
       IN  /\ m.ok
           /\ path_exists(inc_path)
           /\ path_readable(inc_path)
           /\ LET inc_content == normalize_spaces(fs[inc_path].text)
                  body == inline_fragment(m.indent, inc_content)
              IN  /\ out' = out \o body \o args_comments(m.indent, col.args)
                  /\ i' = col.j
                  /\ hist' = Append(hist, Entry("inline", m, ref, inc_path, col,
                                                Len(out) + 1, Len(out) + Len(body), Len(out')))
    /\ UNCHANGED <<pc, input, fs, lines, flat, outFile, stdout>>

\* a directive whose include exists but read_file raises: the include is a
\* directory, or the read fails (permissions, the file disappeared)
InlineRaise ==
    /\ pc = "loop"
    /\ i < n
    /\ LET line == lines[i + 1]
           m == INCLUDE_RE(line)
           ref == include_rel_path(m.target)
           col == collect_args(lines, m.indent, i)
           inc_path == resolve_include_path(ref)
       IN  /\ m.ok
           /\ path_exists(inc_path)
           /\ hist' = Append(hist, Entry("raise", m, ref, inc_path, col,
                                         Len(out) + 1, Len(out), Len(out)))
    /\ pc' = "raised"
    /\ UNCHANGED <<input, fs, lines, i, out, flat, outFile, stdout>>

\* the loop ends and flatten returns the joined output
FlattenReturn ==
    /\ pc = "loop"
    /\ i >= n
    /\ flat' = Join(out)
    /\ pc' = "write"
    /\ UNCHANGED <<input, fs, lines, i, out, outFile, stdout, hist>>

\* __main__: write_file(OUTPUT, flat) and the success message
\* variant: the output is also written when a read raised
mutant_write_whatever_was_built ==
    /\ pc \in {"write", "raised"}
    /\ outFile' = File(Join(out))
    /\ stdout' = Append(stdout, "flattened_written")
    /\ pc' = "done"
    /\ UNCHANGED <<input, fs, lines, i, out, flat, hist>>

\* lines 163-165
WriteOutput ==
    /\ pc = "write"
    /\ outFile' = File(flat)
    /\ stdout' = Append(stdout, "flattened_written")
    /\ pc' = "done"
    /\ UNCHANGED <<input, fs, lines, i, out, flat, hist>>

Next ==
    \/ MainMissing
    \/ FlattenEnter
    \/ FlattenEnterRaise
    \/ PassThrough
    \/ Fallback
    \/ Inline
    \/ InlineRaise
    \/ FlattenReturn
    \/ WriteOutput

Spec == Init /\ [][Next]_vars

SpecSan == InitSan /\ [][Next]_vars

\* ------------------------------------------------------- claims: notation
\* entries of hist and the 0-based line indexes the loop has passed
Entries == 1..Len(hist)
Passed == 0..(i - 1)
IsDirective(h) == hist[h].kind \in {"fallback", "inline"}

\* the 0-based indexes of the lines an entry consumed below its own line
ArgsIndexes(h) == (hist[h].at + 1)..(hist[h].next - 1)

\* flatten has returned
Finished == pc \in {"write", "done"}

\* the text with every NBSP replaced by a space
SpaceNormalized(t) == [k \in 1..Len(t) |-> IF t[k] = "NBSP" THEN " " ELSE t[k]]

\* ----------------------------------------------------------------- C1
\* C1: every input line index the loop has passed is covered by exactly one
\* iteration, and in it the line was either copied to the output verbatim,
\* or was the directive line that a block replaced, or was a member of the
\* args block collected for the directive above it; when flatten finishes
\* this holds of every index 0..n-1.
C1_AccountedOnce ==
    /\ pc \in {"loop", "write", "done", "raised"} => i <= n
    /\ Finished => i = n
    /\ \A k \in Passed :
        /\ Cardinality({h \in Entries : hist[h].at <= k /\ k < hist[h].next}) = 1
        /\ \E h \in Entries :
            /\ hist[h].at <= k /\ k < hist[h].next
            /\ \/ /\ k = hist[h].at
                  /\ hist[h].kind = "copy"
                  /\ hist[h].next = k + 1
                  /\ hist[h].hi = hist[h].lo
                  /\ out[hist[h].lo] = lines[k + 1]
               \/ /\ k = hist[h].at
                  /\ IsDirective(h)
                  /\ INCLUDE_RE(lines[k + 1]).ok
                  /\ hist[h].hi >= hist[h].lo
               \/ /\ k > hist[h].at
                  /\ IsDirective(h)
                  /\ k - hist[h].at <= Len(hist[h].args)
                  /\ hist[h].args[k - hist[h].at] = lines[k + 1]

\* C1 witness: a finished run of three lines: a directive, its args line
\* and a copied line
C1_Witness ==
    /\ pc = "done"
    /\ n = 3
    /\ Len(hist) = 2
    /\ IsDirective(1) /\ Len(hist[1].args) = 1
    /\ hist[2].kind = "copy"

\* ----------------------------------------------------------------- C2
\* C2: for a directive whose resolved path does not exist, the output gets
\* exactly the directive line followed by the collected args lines, each as
\* it stands in the document and in order, nothing else, and the scan goes
\* on at the first line after the args block.
C2_FallbackVerbatim ==
    \A h \in Entries :
        (hist[h].kind # "copy" /\ ~path_exists(hist[h].path)) =>
            LET e == hist[h]
                nargs == e.next - e.at - 1
            IN  /\ e.kind = "fallback"
                /\ e.lo = (IF h = 1 THEN 1 ELSE hist[h - 1].hi + 1)
                /\ e.hi = e.lo + nargs
                /\ e.hi <= Len(out)
                /\ out[e.lo] = lines[e.at + 1]
                /\ \A k \in 1..nargs : out[e.lo + k] = lines[e.at + 1 + k]
                /\ e.args = SubSeq(lines, e.at + 2, e.next)
                /\ IF h = Len(hist) THEN i = e.next /\ Len(out) = e.hi
                   ELSE hist[h + 1].at = e.next

\* C2 witness: a missing include with a two-line args block was passed
\* through
C2_Witness ==
    \E h \in Entries :
        /\ hist[h].kind = "fallback"
        /\ ~path_exists(hist[h].path)
        /\ Len(hist[h].args) = 2
        /\ pc = "done"

\* ----------------------------------------------------------------- C3
\* C3: a document without a directive line flattens to its space-normalized
\* text, line for line; and every line that is no directive and is not in a
\* collected args block is in the output verbatim, in document order.
C3_PassThroughIdentity ==
    /\ (pc = "done" /\ \A k \in 1..n : ~INCLUDE_RE(lines[k]).ok) =>
          /\ outFile.text = SpaceNormalized(input.text)
          /\ Split(outFile.text) = Split(SpaceNormalized(input.text))
          /\ Len(Split(outFile.text)) = n
    /\ \A k \in Passed :
          (/\ ~INCLUDE_RE(lines[k + 1]).ok
           /\ ~\E h \in Entries : k \in ArgsIndexes(h)) =>
              \E h \in Entries :
                  /\ hist[h].at = k
                  /\ hist[h].lo = hist[h].hi
                  /\ out[hist[h].lo] = lines[k + 1]
                  /\ hist[h].lo = (IF h = 1 THEN 1 ELSE hist[h - 1].hi + 1)

\* C3 witness: a written three-line document without directives whose text
\* has an NBSP and a whitespace-only line
C3_Witness ==
    /\ pc = "done"
    /\ n = 3
    /\ \A k \in 1..n : ~INCLUDE_RE(lines[k]).ok
    /\ \E k \in 1..Len(input.text) : input.text[k] = "NBSP"
    /\ \E k \in 1..n : lines[k] = <<" ", " ">>

\* ------------------------------------------------------ claims: fragments
\* the lines of the fragment an entry inlined, as read (space-normalized)
FragLines(h) == Split(SpaceNormalized(fs[hist[h].path].text))

\* a blank line: empty or whitespace only
Blank(l) == \A k \in 1..Len(l) : IsSpace(l[k])

\* 1-based index of the first non-blank line of ls, Len(ls) + 1 if none
FirstContent(ls) ==
    IF \A k \in 1..Len(ls) : Blank(ls[k]) THEN Len(ls) + 1
    ELSE CHOOSE k \in 1..Len(ls) : ~Blank(ls[k]) /\ \A m \in 1..(k - 1) : Blank(ls[m])

\* a keyed line: after optional whitespace a token of word characters,
\* hyphens or quotes, then optional whitespace and a colon
KeyedLine(l) ==
    \E p \in 1..Len(l) : \E q \in p..Len(l) : \E c \in (q + 1)..Len(l) :
        /\ \A m \in 1..(p - 1) : IsSpace(l[m])
        /\ \A m \in p..q : IsKeyChar(l[m])
        /\ \A m \in (q + 1)..(c - 1) : IsSpace(l[m])
        /\ l[c] = ":"

\* the first non-blank line of the entry's fragment is keyed
KeyedFragment(h) ==
    LET ls == FragLines(h)
        f == FirstContent(ls)
    IN  f <= Len(ls) /\ KeyedLine(ls[f])

\* a fragment line as the claims say it is emitted under the entry's indent
Padded(h, l) == IF l = <<>> THEN <<>> ELSE Spaces(Len(hist[h].indent) + 2) \o l

\* ----------------------------------------------------------------- C4
\* C4: for a directive that resolved to a fragment, a non-empty args block
\* is reproduced right after the inlined lines as one comment header line
\* and one comment line per args line, in order, each with the trimmed text
\* of that line; the args lines get no iteration of their own (they are
\* neither copied nor matched); an empty args block adds nothing.
C4_ArgsAsComments ==
    \A h \in Entries :
        hist[h].kind = "inline" =>
            LET e == hist[h]
                nargs == e.next - e.at - 1
            IN  /\ nargs = Len(e.args)
                /\ e.mid >= e.lo
                /\ nargs = 0 => e.hi = e.mid
                /\ nargs > 0 =>
                      /\ e.hi = e.mid + 1 + nargs
                      /\ e.hi <= Len(out)
                      /\ out[e.mid + 1] = e.indent \o ARGS_HEADER
                      /\ \A k \in 1..nargs :
                            out[e.mid + 1 + k] =
                                e.indent \o <<" ", " ", "#", " ">> \o Strip(lines[e.at + 1 + k])
                /\ \A g \in Entries : hist[g].at \notin ArgsIndexes(h)
                /\ IF h = Len(hist) THEN Len(out) = e.hi ELSE hist[h + 1].lo = e.hi + 1

\* C4 witness: an inlined directive with a two-line args block, finished
C4_Witness ==
    /\ pc = "done"
    /\ \E h \in Entries :
        /\ hist[h].kind = "inline"
        /\ Len(hist[h].args) = 2
        /\ Strip(hist[h].args[2]) # hist[h].args[2]

\* ----------------------------------------------------------------- C5
\* C5: a fragment whose first non-blank line is keyed is emitted as the
\* directive's indent, "- " and that line trimmed; then, iff a later
\* fragment line is non-blank, every fragment line after it follows, the
\* non-empty ones padded with len(indent)+2 spaces and the empty ones empty;
\* the leading blank lines are not emitted.
C5_KeyedInline ==
    \A h \in Entries :
        (hist[h].kind = "inline" /\ KeyedFragment(h)) =>
            LET e == hist[h]
                ls == FragLines(h)
                f == FirstContent(ls)
                later == (f + 1)..Len(ls)
            IN  /\ out[e.lo] = e.indent \o <<"-", " ">> \o Strip(ls[f])
                /\ IF \E k \in later : ~Blank(ls[k])
                   THEN /\ e.mid = e.lo + 1
                        /\ Split(out[e.lo + 1]) =
                              [k \in 1..(Len(ls) - f) |-> Padded(h, ls[f + k])]
                   ELSE e.mid = e.lo

\* C5 witness: the directive "  - !include file: b.yaml" inlined the
\* fragment "name: x\nvalue: 1" as "  - name: x", "    value: 1"
C5_Witness ==
    \E h \in Entries :
        /\ hist[h].kind = "inline"
        /\ hist[h].indent = <<" ", " ">>
        /\ fs[hist[h].path].text = F_keyed
        /\ out[hist[h].lo] = <<" ", " ", "-", " ", "n", "a", "m", "e", ":", " ", "x">>
        /\ out[hist[h].lo + 1] = <<" ", " ", " ", " ", "v", "a", "l", "u", "e", ":", " ", "1">>
        /\ hist[h].mid = hist[h].lo + 1

\* C5 second witness: a keyed fragment with leading and trailing blank
\* lines only was inlined as its first content line alone
C5_WitnessNoRest ==
    \E h \in Entries :
        /\ hist[h].kind = "inline"
        /\ fs[hist[h].path].text = F_lead
        /\ hist[h].mid = hist[h].lo

\* ----------------------------------------------------------------- C6
\* C6: a fragment whose first non-blank line is not keyed (or that is all
\* blank) is emitted as the directive's indent and "- |" followed by every
\* line of the fragment from its first, in order, the non-empty ones padded
\* with len(indent)+2 spaces.
C6_LiteralBlock ==
    \A h \in Entries :
        (hist[h].kind = "inline" /\ ~KeyedFragment(h)) =>
            LET e == hist[h]
                ls == FragLines(h)
            IN  /\ e.mid = e.lo + 1
                /\ out[e.lo] = e.indent \o <<"-", " ", "|">>
                /\ Split(out[e.lo + 1]) = [k \in 1..Len(ls) |-> Padded(h, ls[k])]

\* C6 witness: "- !include a.yaml" on the fragment "- a\n- b" gave "- |",
\* "  - a", "  - b"
C6_Witness ==
    \E h \in Entries :
        /\ hist[h].kind = "inline"
        /\ hist[h].indent = <<>>
        /\ fs[hist[h].path].text = F_list
        /\ out[hist[h].lo] = <<"-", " ", "|">>
        /\ out[hist[h].lo + 1] = <<" ", " ", "-", " ", "a", "\n", " ", " ", "-", " ", "b">>

\* C6 second witness: an all-blank fragment went into a literal block
C6_WitnessBlank ==
    \E h \in Entries :
        /\ hist[h].kind = "inline"
        /\ fs[hist[h].path].text = F_blank
        /\ hist[h].mid = hist[h].lo + 1

\* ----------------------------------------------------------------- C7
\* C7: the sanitized reference of every directive (the path flatten hands to
\* the existence check, relative to base_dir) contains no '#', no '?' and
\* does not start with 'file:' in any letter case.
C7_SanitizedClean ==
    \A h \in Entries :
        hist[h].kind # "copy" =>
            /\ \A k \in 1..Len(hist[h].path) : hist[h].path[k] \notin {"#", "?"}
            /\ ~StartsWith(Lower(hist[h].path), <<"f", "i", "l", "e", ":">>)

\* ----------------------------------------------------------------- C8
\* a list item at the indent ind: the line is ind, then '-'
SiblingItem(ind, l) ==
    /\ Len(l) > Len(ind)
    /\ Take(l, Len(ind)) = ind
    /\ LeadWs(l) = Len(ind)
    /\ l[Len(ind) + 1] = "-"

\* C8 as stated: no line consumed into an args block matches the include
\* pattern or is a list item at the directive's indent.
C8_NeverConsumesDirectiveOrSibling ==
    \A h \in Entries : \A k \in ArgsIndexes(h) :
        /\ ~INCLUDE_RE(lines[k + 1]).ok
        /\ ~SiblingItem(hist[h].indent, lines[k + 1])

\* C8 amended: every line consumed into an args block starts with the
\* directive's indent followed by at least one more whitespace character;
\* so it is never a list item at the directive's indent, and a consumed line
\* that matches the include pattern is indented deeper than the directive.
C8_ConsumesOnlyDeeperLines ==
    \A h \in Entries : \A k \in ArgsIndexes(h) :
        LET l == lines[k + 1]
            ind == hist[h].indent
        IN  /\ Len(l) > Len(ind)
            /\ Take(l, Len(ind)) = ind
            /\ IsSpace(l[Len(ind) + 1])
            /\ ~SiblingItem(ind, l)
            /\ INCLUDE_RE(l).ok =>
                  /\ Len(INCLUDE_RE(l).indent) > Len(ind)
                  /\ Take(INCLUDE_RE(l).indent, Len(ind)) = ind

\* C8 witness: an args block was collected, the list item at the directive's
\* indent right after it was left to an iteration of its own, and in the
\* same document a deeper directive line was taken into the block
C8_Witness ==
    \E h \in Entries :
        /\ hist[h].kind # "copy"
        /\ Len(hist[h].args) = 1
        /\ hist[h].next < n
        /\ SiblingItem(hist[h].indent, lines[hist[h].next + 1])
        /\ \E g \in Entries : hist[g].at = hist[h].next /\ hist[g].kind = "copy"

\* C8 second witness: a line matching the include pattern was consumed
C8_WitnessDeeperDirective ==
    \E h \in Entries : \E k \in ArgsIndexes(h) : INCLUDE_RE(lines[k + 1]).ok

\* ----------------------------------------------------------------- C9
\* C9: the output file is written only after flatten went through the whole
\* document: a run on a missing input stops with no line processed and no
\* output file, and a run in which a read raised ends without output file.
C9_WriteOnlyAfterSuccess ==
    /\ outFile.exists =>
          /\ pc = "done"
          /\ input.exists
          /\ i = n
          /\ \A h \in Entries : hist[h].kind # "raise"
          /\ outFile.text = Join(out)
    /\ pc = "exit1" => ~input.exists /\ hist = <<>> /\ out = <<>> /\ ~outFile.exists
    /\ pc = "raised" => ~outFile.exists
    /\ ~input.exists => pc \in {"main", "exit1"}

\* C9 witness: a run raised on the second directive after output was built
C9_Witness ==
    /\ pc = "raised"
    /\ out # <<>>
    /\ Len(hist) >= 2
    /\ hist[Len(hist)].kind = "raise"
    /\ ~outFile.exists

\* C9 second witness: the input is missing and the run has stopped
C9_WitnessMissingInput == pc = "exit1" /\ stdout = <<"input_not_found">>

\* ---------------------------------------------------------------- C10
\* the directives of the run whose include did not exist
UnresolvedCount == Cardinality({h \in Entries : hist[h].kind = "fallback"})

\* what the run told its caller about unresolved includes: flatten returns
\* the text only, so this is the number of notices printed about them
ReportedUnresolved ==
    Cardinality({k \in 1..Len(stdout) : stdout[k] = "unresolved_include"})

\* C10: after a run with k unresolved directives the caller has been told of
\* k unresolved references.
C10_UnresolvedSurfaced == pc = "done" => ReportedUnresolved = UnresolvedCount

\* ---------------------------------------------------------------- C11
\* a continuation line of the indent ind: ind, then one more whitespace
\* character
ContinuationLine(ind, l) ==
    /\ Len(l) > Len(ind)
    /\ \A k \in 1..Len(ind) : l[k] = ind[k]
    /\ IsSpace(l[Len(ind) + 1])

\* the line after the directive of entry h opens an args block
OpensArgs(h) ==
    /\ hist[h].at + 1 < n
    /\ ContinuationLine(hist[h].indent, lines[hist[h].at + 2])
    /\ StartsWith(Strip(lines[hist[h].at + 2]), <<"a", "r", "g", "s", ":">>)

\* a line dedented to the indent ind or less
Dedented(ind, l) == ~Blank(l) /\ LeadWs(l) <= Len(ind)

\* the block of a directive: empty with the cursor on the next line unless
\* the next line opens it; else the lines from it up to the cursor, all of
\* them continuation lines
BlockShape(h) ==
    /\ hist[h].args = SubSeq(lines, hist[h].at + 2, hist[h].next)
    /\ IF OpensArgs(h)
       THEN /\ hist[h].next >= hist[h].at + 2
            /\ \A k \in ArgsIndexes(h) : ContinuationLine(hist[h].indent, lines[k + 1])
       ELSE hist[h].args = <<>> /\ hist[h].next = hist[h].at + 1

\* C11 as stated: the block is empty unless the next line opens it; a
\* collected block is a run of continuation lines that ends at the first
\* following line that is blank or dedented, or at the end of the document.
C11_EndsAtFirstBlank ==
    \A h \in Entries :
        hist[h].kind # "copy" =>
            /\ BlockShape(h)
            /\ OpensArgs(h) =>
                  /\ \A k \in (hist[h].at + 2)..(hist[h].next - 1) :
                        ~Blank(lines[k + 1]) /\ ~Dedented(hist[h].indent, lines[k + 1])
                  /\ \/ hist[h].next = n
                     \/ Blank(lines[hist[h].next + 1])
                     \/ Dedented(hist[h].indent, lines[hist[h].next + 1])

\* C11 amended: the block is empty unless the next line opens it; a
\* collected block is the maximal run of continuation lines: it ends at the
\* first following line that is no continuation line, or at the end of the
\* document, and a whitespace-only line that extends the indent is part of
\* it.
C11_MaximalContinuationRun ==
    \A h \in Entries :
        hist[h].kind # "copy" =>
            /\ BlockShape(h)
            /\ OpensArgs(h) =>
                  \/ hist[h].next = n
                  \/ ~ContinuationLine(hist[h].indent, lines[hist[h].next + 1])

\* C11 witness: a block of two lines whose second line is whitespace only
C11_Witness ==
    \E h \in Entries :
        /\ hist[h].kind # "copy"
        /\ OpensArgs(h)
        /\ Len(hist[h].args) = 2
        /\ Blank(hist[h].args[2])

\* C11 second witness: a block of one line ended by an empty line
C11_WitnessEmptyLineEnds ==
    \E h \in Entries :
        /\ hist[h].kind # "copy"
        /\ Len(hist[h].args) = 1
        /\ hist[h].next < n
        /\ lines[hist[h].next + 1] = <<>>

\* C11 third witness: the line after a directive is deeper but is no args:
\* line, and the block is empty
C11_WitnessNoArgs ==
    \E h \in Entries :
        /\ hist[h].kind # "copy"
        /\ hist[h].at + 1 < n
        /\ ContinuationLine(hist[h].indent, lines[hist[h].at + 2])
        /\ ~Blank(lines[hist[h].at + 2])
        /\ hist[h].args = <<>>

\* ---------------------------------------------------------------- C12
\* the iterations so far form one forward pass: the first starts at 0, each
\* starts where the one before ended, and each ends past its start and at
\* most at n, a copied line one line further
ForwardChain ==
    /\ Len(hist) <= n
    /\ hist # <<>> => hist[1].at = 0
    /\ \A h \in Entries :
        /\ hist[h].at < hist[h].next
        /\ hist[h].next <= n
        /\ hist[h].kind = "copy" => hist[h].next = hist[h].at + 1
        /\ h < Len(hist) => hist[h + 1].at = hist[h].next

\* the loop has been left
LoopLeft == pc \in {"write", "done", "raised"} /\ lines # <<>>

\* C12 as stated: every iteration moves the cursor to the end of its entry,
\* strictly forward and at most to n, and the loop is left only with i >= n,
\* after at most n iterations.
C12_AlwaysReachesEnd ==
    /\ ForwardChain
    /\ i = (IF hist = <<>> THEN 0 ELSE hist[Len(hist)].next)
    /\ LoopLeft => i >= n

\* C12 amended: every iteration that completes moves the cursor strictly
\* forward and at most to n (so the cursor, always the end of the last
\* completed iteration, never decreases), and after at most n iterations the
\* loop is left, with i = n or, when reading a fragment raised, by that
\* exception with the cursor on the directive.  (n - i is the variant: the
\* loop body has no blocking call, so the bound on the iterations is the
\* termination.)
C12_ForwardPassTerminates ==
    /\ ForwardChain
    /\ \A h \in Entries : hist[h].kind = "raise" => h = Len(hist) /\ pc = "raised"
    /\ i = (IF hist = <<>> THEN 0
            ELSE IF hist[Len(hist)].kind = "raise" THEN hist[Len(hist)].at
            ELSE hist[Len(hist)].next)
    /\ LoopLeft => (i >= n \/ hist[Len(hist)].kind = "raise")
    /\ pc \in {"write", "done"} => i = n

\* C12 witness: a finished run whose last iteration took an args block that
\* runs to the end of the document, in fewer than n iterations
C12_Witness ==
    /\ pc = "done"
    /\ n = 3
    /\ hist # <<>>
    /\ hist[Len(hist)].kind # "copy"
    /\ Len(hist[Len(hist)].args) >= 1
    /\ hist[Len(hist)].next = n
    /\ Len(hist) < n

\* C12 second witness: the loop was left by a raising read before the end
C12_WitnessRaised == pc = "raised" /\ hist # <<>> /\ i < n

====
